---- MODULE Spec2Model ----
(***************************************************************************)
(* The flash-loan arbitrage coordinator PwndArbitrage                      *)
(* (contracts/example/src/lib.rs) as a state machine.                      *)
(*                                                                         *)
(* One action is one ledger transaction: the contract's entry point runs   *)
(* to its end, the nested frames included (pwnd_arb -> pool.flash_loan ->  *)
(* exec_op -> the stored invocations), and the transaction's writes are    *)
(* kept when the entry point returns Ok and discarded otherwise.  `obs` is *)
(* the record of the transaction that has just ended; EndTx clears it      *)
(* before the next transaction is submitted.                               *)
(***************************************************************************)
EXTENDS Integers, Sequences, FiniteSets, TLC

\* ------------------------------------------------------------ bounds ----
\* Longest batch enumerated in full (all sequences over Kinds up to it).
MaxLen == 1
\* Ledgers a temporary entry lives after it has been created.
TempTTL == 2
\* Cap on the coordinator's balance of the traded asset between transactions.
MaxBal == 1
\* Cap on what one depositor holds in the vault.
MaxDeposit == 2

\* ----------------------------------------------------- program constants
\* invocations.len() > 10
MaxInvocations == 10

\* ------------------------------------------------------------ inputs ----
Users == {"u1", "u2"}
Assets == {"a1", "a2"}
\* The asset the modelled DEX invocations pay out and take.
TradedAsset == "a1"
\* An invocation (contract_address, method, args) is known by what the
\* called contract does: pay the coordinator 1 TradedAsset, take 1
\* TradedAsset from it, or fail.
Kinds == {"gain", "lose", "fail"}
LoanAmounts == {-1, 0, 1, 2}
MinProfits == {-1, 0, 1}
\* Fee the pool charges in its callback.
PoolFees == {0, 1}
\* Arguments of a direct exec_op call.
ExecAmounts == {0, 1, 2}
ExecFees == {-1, 0, 1}

RECURSIVE SeqsUpTo(_)
SeqsUpTo(n) ==
    IF n = 0 THEN {<< >>}
    ELSE LET shorter == SeqsUpTo(n - 1)
         IN  shorter \cup {Append(s, k) : s \in {t \in shorter : Len(t) = n - 1}, k \in Kinds}

\* gain, lose, gain, lose, ... of length n: a batch with no net effect.
Alternating(n) == [i \in 1..n |-> IF i % 2 = 1 THEN "gain" ELSE "lose"]

\* gain, lose, lose, ... of length n: a batch that fails once the balance is used up.
Draining(n) == [i \in 1..n |-> IF i = 1 THEN "gain" ELSE "lose"]

\* Every batch up to MaxLen, two batches at the limit and one above it.
Batches ==
    SeqsUpTo(MaxLen) \cup
    {Alternating(MaxInvocations), Draining(MaxInvocations), Alternating(MaxInvocations + 1)}

\* An item of a pwnd_exec batch (contract, method, args, can_fail): what
\* the called contract does, and whether its failure is tolerated.
Items == [kind : Kinds, canFail : BOOLEAN]

RECURSIVE ItemSeqsUpTo(_)
ItemSeqsUpTo(n) ==
    IF n = 0 THEN {<< >>}
    ELSE LET shorter == ItemSeqsUpTo(n - 1)
         IN  shorter \cup {Append(s, it) : s \in {t \in shorter : Len(t) = n - 1}, it \in Items}

Strict(kind) == [kind |-> kind, canFail |-> FALSE]
Tolerant(kind) == [kind |-> kind, canFail |-> TRUE]

\* Every pwnd_exec batch up to MaxLen, and three batches of three items: a
\* tolerated failure in the middle, a failure that is not tolerated in the
\* middle, and items whose success depends on the balance.
ExecBatches ==
    ItemSeqsUpTo(MaxLen) \cup
    {<< Strict("gain"), Tolerant("fail"), Strict("lose") >>,
     << Tolerant("gain"), Strict("fail"), Tolerant("gain") >>,
     << Tolerant("lose"), Strict("gain"), Strict("lose") >>}

\* Arguments of the zapper's deposit, and what the router and the vault it
\* calls may answer: the router fails, or returns the amounts along the
\* path (the amount taken in first, the amount paid out last; an empty
\* list stands for a router that returns none); the vault accepts the
\* deposit or fails.
ZapAmounts == {-1, 0, 1, 2}
SwapOuts == {0, 1, 2}
RouterAnswers(amount) ==
    {[ok |-> FALSE, amounts |-> << >>], [ok |-> TRUE, amounts |-> << >>]}
        \cup {[ok |-> TRUE, amounts |-> << amount, out >>] : out \in SwapOuts}

\* ------------------------------------------------------------- state ----
VARIABLES
    store,  \* temporary storage: the value under each of the five keys
    ttl,    \* ledgers each temporary entry still lives; 0 = absent
    bal,    \* the coordinator's token balances, per asset
    consumed, \* history: a callback that returned Ok has read the stored request
    obs,    \* the transaction that has just ended ("idle": none)
    underlying, \* the zapper's instance storage: the underlying asset ("": not constructed)
    vault,  \* the vault's record of what each depositor has deposited
    expired \* history: the request whose TTL ran out, no pwnd_arb having stored one since

vars == << store, ttl, bal, consumed, obs, underlying, vault, expired >>

Keys == {"INVOCS", "LNASSET", "LNAMT", "MINPROF", "CALLER"}

EmptyStore == [INVOCS |-> << >>, LNASSET |-> "", LNAMT |-> 0, MINPROF |-> 0, CALLER |-> ""]

World == [store |-> store, ttl |-> ttl, bal |-> bal]

\* Mutant: get does not look at the entry's TTL.
HasAlways(w, k) == TRUE

\* storage().temporary().get(key): Some iff the entry is live.
Has(w, k) == w.ttl[k] > 0

\* Mutant: set writes only when there is no live entry under the key.
SetEntryKeepsOld(w, k, v) ==
    IF w.ttl[k] > 0 THEN w
    ELSE [w EXCEPT !.store[k] = v, !.ttl[k] = TempTTL]

\* storage().temporary().set(key, val): the value is overwritten; a new
\* entry starts its TTL, an existing one keeps the TTL it has.
SetEntry(w, k, v) ==
    [w EXCEPT !.store[k] = v,
              !.ttl[k] = IF w.ttl[k] > 0 THEN w.ttl[k] ELSE TempTTL]

\* ----------------------------------------------------- authorization ----
\* Mutant: the caller's authorization is not asked for.
AuthorizedAlways(auth) == TRUE

\* caller.require_auth(): the frame goes on only when the transaction
\* carries the caller's authorization for this call.
Authorized(auth) == auth

\* ------------------------------------------------ sub-invocations -------
\* e.try_invoke_contract(contract_address, method, args) on the balances b:
\* what the called contract does to them, and whether it succeeded.  A call
\* that fails leaves nothing behind (the host discards the failed frame).
Invoke(kind, b) ==
    CASE kind = "gain" -> [ok |-> TRUE, bal |-> [b EXCEPT ![TradedAsset] = @ + 1]]
      [] kind = "lose" -> IF b[TradedAsset] >= 1
                          THEN [ok |-> TRUE, bal |-> [b EXCEPT ![TradedAsset] = @ - 1]]
                          ELSE [ok |-> FALSE, bal |-> b]
      [] OTHER         -> [ok |-> FALSE, bal |-> b]

\* Mutant: a failed invocation does not stop the loop; the items after it
\* are invoked too, and the batch counts as failed at its end.
RECURSIVE RunPastFailure(_, _, _, _)
RunPastFailure(invs, i, b, log) ==
    IF i > Len(invs) THEN [ok |-> TRUE, bal |-> b, log |-> log]
    ELSE CHOOSE out \in
             {IF r.ok THEN rest ELSE [rest EXCEPT !.ok = FALSE]
                 : rest \in {RunPastFailure(invs, i + 1, Invoke(invs[i], b).bal, Append(log, invs[i]))},
                   r \in {Invoke(invs[i], b)}} : TRUE

\* The loop of exec_op over invocations.iter(), from item i on: each item is
\* invoked in turn and the first failure returns.  log lists the items
\* invoked, the failing one included.  (r is bound to the value of the
\* invocation, so that it is evaluated once.)
RECURSIVE RunFailFast(_, _, _, _)
RunFailFast(invs, i, b, log) ==
    IF i > Len(invs) THEN [ok |-> TRUE, bal |-> b, log |-> log]
    ELSE CHOOSE out \in
             {IF ~r.ok THEN [ok |-> FALSE, bal |-> b, log |-> Append(log, invs[i])]
              ELSE RunFailFast(invs, i + 1, r.bal, Append(log, invs[i]))
                 : r \in {Invoke(invs[i], b)}} : TRUE

\* ----------------------------------------------------------- exec_op ----
\* The four get(..).ok_or(InvalidParams)? of exec_op all found an entry.
RequestPresent(w) ==
    Has(w, "INVOCS") /\ Has(w, "LNASSET") /\ Has(w, "LNAMT") /\ Has(w, "CALLER")

\* Mutant: the caller is not compared.
ParamsMatchNoCaller(w, caller, token, amount) ==
    ~(token # w.store.LNASSET \/ amount # w.store.LNAMT)

\* The negation of: token != loan_asset || amount != loan_amount || caller != stored_caller
ParamsMatch(w, caller, token, amount) ==
    ~(token # w.store.LNASSET \/ amount # w.store.LNAMT \/ caller # w.store.CALLER)

\* Mutant: the fee is left out of the repayment amount.
CanRepayNoFee(balance, amount, fee) == ~(balance < amount)

\* The negation of: current_balance < repayment_amount, repayment_amount = amount + fee
CanRepay(balance, amount, fee) == ~(balance < amount + fee)

\* Mutant: exec_op transfers the repayment to the pool itself.
ExecOpRepayTransfers(none, run, token, amount, fee) ==
    IF ~run.ok
    THEN [none EXCEPT !.res = "SwapFailed", !.at = "batch", !.log = run.log]
    ELSE IF ~CanRepay(run.bal[token], amount, fee)
    THEN [none EXCEPT !.res = "RepaymentFailed", !.at = "repay",
                      !.log = run.log, !.seen = run.bal[token]]
    ELSE [res |-> "Ok", at |-> "done", log |-> run.log,
          seen |-> run.bal[token], bal |-> [run.bal EXCEPT ![token] = @ - (amount + fee)]]

\* exec_op from the repayment check on, the batch having run as `run`.
ExecOpRepay(none, run, token, amount, fee) ==
    IF ~run.ok
    THEN [none EXCEPT !.res = "SwapFailed", !.at = "batch", !.log = run.log]
    ELSE IF ~CanRepay(run.bal[token], amount, fee)
    THEN [none EXCEPT !.res = "RepaymentFailed", !.at = "repay",
                      !.log = run.log, !.seen = run.bal[token]]
    ELSE [res |-> "Ok", at |-> "done", log |-> run.log,
          seen |-> run.bal[token], bal |-> run.bal]

\* The error of each get(..).ok_or(SoroswapError::InvalidParams)?.
LookupError == "InvalidParams"

\* Mutant: a request that does not match has an error of its own.
MismatchErrorDistinct == "StaleOrMismatchedCallback"

\* The error returned when the arguments do not match the stored request:
\* return Err(SoroswapError::InvalidParams).
MismatchError == "InvalidParams"

\* exec_op(caller, token, amount, fee) run on the world w.  res is the value
\* returned, at the step that returned it, log the sub-invocations invoked,
\* seen the balance of token read at the repayment check (-1: not read),
\* bal the balances the frame leaves (those of w when it returns Err).
ExecOp(w, caller, token, amount, fee) ==
    LET none == [res |-> LookupError, at |-> "lookup", log |-> << >>, seen |-> -1, bal |-> w.bal]
    IN  IF ~RequestPresent(w) THEN none
        ELSE IF ~ParamsMatch(w, caller, token, amount)
        THEN [none EXCEPT !.res = MismatchError, !.at = "match"]
        ELSE CHOOSE out \in
                 {ExecOpRepay(none, run, token, amount, fee)
                     : run \in {RunFailFast(w.store.INVOCS, 1, w.bal, << >>)}} : TRUE

\* Mutant: exec_op removes the request it has read.
ExecOpLeavesNoRequest(w, o) ==
    [store |-> EmptyStore, ttl |-> [k \in Keys |-> 0], bal |-> o.bal]

\* What the frame of exec_op, having run as o, leaves of the world w: it
\* only reads the temporary entries (get), so the storage is as it was;
\* the balances are as the sub-invocations left them.
ExecOpLeaves(w, o) == [w EXCEPT !.bal = o.bal]

\* ------------------------------------------------------ lending pool ----
\* PoolContract::flash_loan as the source describes it: the pool transfers
\* the loan to the receiver, calls the receiver's exec_op, and pulls the
\* repayment back.  The call is a plain invoke_contract: when exec_op
\* returns Err the pool's frame fails, and with it the caller's.
FlashLoan(w, caller, asset, amount, fee) ==
    CHOOSE out \in
        {[ok  |-> cb.res = "Ok",
          cb  |-> [res |-> cb.res, at |-> cb.at, log |-> cb.log, seen |-> cb.seen],
          bal |-> IF cb.res = "Ok" THEN [cb.bal EXCEPT ![asset] = @ - (amount + fee)] ELSE w.bal]
            : cb \in {ExecOp([w EXCEPT !.bal[asset] = @ + amount], caller, asset, amount, fee)}} : TRUE

\* ---------------------------------------------------------- pwnd_arb ----
\* Mutant: only the empty batch is refused.
ValidInvocationsNonEmpty(invs) == ~(Len(invs) = 0)

\* Mutant: the empty batch is let through.
ValidInvocationsNotOversized(invs) == ~(Len(invs) > MaxInvocations)

\* The negation of: invocations.is_empty() || invocations.len() > 10
ValidInvocations(invs) == ~(Len(invs) = 0 \/ Len(invs) > MaxInvocations)

\* Mutant: min_profit is not validated.
ValidAmountsLoanOnly(amount, minp) == ~(amount <= 0)

\* Mutant: a loan_amount of 0 is let through.
ValidAmountsNonNegative(amount, minp) == ~(amount < 0 \/ minp < 0)

\* The negation of: loan_amount <= 0 || min_profit < 0
ValidAmounts(amount, minp) == ~(amount <= 0 \/ minp < 0)

\* Mutant: min_profit is not written.
PutRequestNoMinProfit(w, invs, asset, amount, minp, caller) ==
    LET w1 == SetEntry(w, "INVOCS", invs)
        w2 == SetEntry(w1, "LNASSET", asset)
        w3 == SetEntry(w2, "LNAMT", amount)
    IN  SetEntry(w3, "CALLER", caller)

\* Mutant: the invocation list is not written.
PutRequestNoInvocs(w, invs, asset, amount, minp, caller) ==
    LET w2 == SetEntry(w, "LNASSET", asset)
        w3 == SetEntry(w2, "LNAMT", amount)
        w4 == SetEntry(w3, "MINPROF", minp)
    IN  SetEntry(w4, "CALLER", caller)

\* The five storage().temporary().set calls.
PutRequest(w, invs, asset, amount, minp, caller) ==
    LET w1 == SetEntry(w, "INVOCS", invs)
        w2 == SetEntry(w1, "LNASSET", asset)
        w3 == SetEntry(w2, "LNAMT", amount)
        w4 == SetEntry(w3, "MINPROF", minp)
    IN  SetEntry(w4, "CALLER", caller)

\* Mutant: the profit is compared with 0, not with min_profit.
ProfitableNonNegative(net, minp) == ~(net < 0)

\* The negation of: net_profit < min_profit
Profitable(net, minp) == ~(net < minp)

\* Mutant: the profit is never transferred.
DisbursedNothing(net) == 0

\* Mutant: the transfer is made only above 1.
DisbursedAboveOne(net) == IF net > 1 THEN net ELSE 0

\* The amount of the transfer to the caller: if net_profit > 0 { transfer(.., net_profit) }
Disbursed(net) == IF net > 0 THEN net ELSE 0

NoCallback == [res |-> "none", at |-> "none", log |-> << >>, seen |-> -1]

\* pwnd_arb from the return of the pool call on: the request was written
\* as `put`, the balance before the call was `initial`, the pool call went
\* as `fl`.
PwndArbSettle(called, put, initial, fl, asset, minp) ==
    IF ~fl.ok THEN [called EXCEPT !.cb = fl.cb, !.result = "PoolFailed"]
    ELSE LET final == fl.bal[asset]
             net   == final - initial
             paid  == Disbursed(net)
         IN  IF ~Profitable(net, minp)
             THEN [called EXCEPT !.cb = fl.cb, !.result = "InsufficientProfit", !.final = final,
                                 !.world = [put EXCEPT !.bal = fl.bal]]
             ELSE [called EXCEPT !.cb = fl.cb, !.result = "Ok", !.ret = net, !.final = final,
                                 !.xfer = paid,
                                 !.world = [put EXCEPT !.bal = [fl.bal EXCEPT ![asset] = @ - paid]]]

\* pwnd_arb from the balance snapshot on, the request having been written as `put`.
PwndArbLoan(early, put, caller, asset, amount, minp, fee) ==
    CHOOSE out \in
        {PwndArbSettle([early EXCEPT !.wrote = TRUE, !.pool = TRUE,
                                     !.initial = put.bal[asset], !.world = put],
                       put, put.bal[asset], fl, asset, minp)
            : fl \in {FlashLoan(put, caller, asset, amount, fee)}} : TRUE

\* pwnd_arb run on the world w.  world is what its frame leaves, result the
\* value returned ("AuthFailed", "PoolFailed": the host's failure of the
\* frame at require_auth or at the pool call), ret the value inside Ok.
PwndArb(w, auth, caller, asset, amount, invs, minp, fee) ==
    LET early == [result |-> "AuthFailed", ret |-> 0, world |-> w, wrote |-> FALSE,
                  pool |-> FALSE, cb |-> NoCallback, initial |-> 0, final |-> 0, xfer |-> 0]
    IN  IF ~Authorized(auth) THEN early
        ELSE IF ~ValidInvocations(invs) THEN [early EXCEPT !.result = "InvalidInvocations"]
        ELSE IF ~ValidAmounts(amount, minp) THEN [early EXCEPT !.result = "InvalidParams"]
        ELSE CHOOSE out \in
                 {PwndArbLoan(early, put, caller, asset, amount, minp, fee)
                     : put \in {PutRequest(w, invs, asset, amount, minp, caller)}} : TRUE

\* --------------------------------------------------------- pwnd_exec ----
\* The Val a successful invocation returns, and the error Val that
\* try_invoke_contract hands back for a failed one.
Value(kind) == [tag |-> "value", of |-> kind]
ErrorValue(kind) == [tag |-> "error", of |-> kind]

\* Mutant: invoke_contract does not fail the frame when the callee fails.
AbortsNever(canFail, r) == FALSE

\* e.invoke_contract (the can_fail = false branch) fails the whole frame
\* when the callee fails; e.try_invoke_contract never does.
Aborts(canFail, r) == ~canFail /\ ~r.ok

\* Mutant: a tolerated failure pushes nothing.
PushBackSkipsError(results, canFail, kind, r) ==
    IF canFail /\ ~r.ok THEN results ELSE Append(results, Value(kind))

\* results.push_back(..) of the three branches: Ok(v) and Err(err) of the
\* tolerated call, and the value of the plain call.
PushBack(results, canFail, kind, r) ==
    IF canFail
    THEN IF r.ok THEN Append(results, Value(kind)) ELSE Append(results, ErrorValue(kind))
    ELSE Append(results, Value(kind))

\* The loop of pwnd_exec over invocations, from item i on.  log lists the
\* items invoked, results the values pushed so far.
RECURSIVE RunFailSoft(_, _, _, _, _)
RunFailSoft(items, i, b, results, log) ==
    IF i > Len(items) THEN [ok |-> TRUE, bal |-> b, results |-> results, log |-> log]
    ELSE CHOOSE out \in
             {IF Aborts(items[i].canFail, r)
              THEN [ok |-> FALSE, bal |-> b, results |-> results, log |-> Append(log, items[i])]
              ELSE RunFailSoft(items, i + 1, r.bal,
                               PushBack(results, items[i].canFail, items[i].kind, r),
                               Append(log, items[i]))
                 : r \in {Invoke(items[i].kind, b)}} : TRUE

\* pwnd_exec run on the world w.  result is "Ok" when the function
\* returned its results, "AuthFailed" / "InvokeFailed" when the host failed
\* the frame at require_auth / at an invoke_contract.  (The extension of
\* the instance TTL is not part of the modelled state.)
PwndExec(w, auth, items) ==
    IF ~Authorized(auth)
    THEN [result |-> "AuthFailed", results |-> << >>, log |-> << >>, bal |-> w.bal]
    ELSE CHOOSE out \in
             {[result |-> IF run.ok THEN "Ok" ELSE "InvokeFailed",
               results |-> run.results, log |-> run.log, bal |-> run.bal]
                 : run \in {RunFailSoft(items, 1, w.bal, << >>, << >>)}} : TRUE

\* ------------------------------------------------- defindex-zap -------
\* check_nonnegative_amount(amount) returned Ok.
NonNegative(amount) == ~(amount < 0)

\* Mutant: the amount deposited is the first of the router's amounts.
SwappedAmountFirst(amounts) == amounts[1]

\* swap_result.last().unwrap()
SwappedAmount(amounts) == amounts[Len(amounts)]

\* The call of the router and the call of the vault, as the zapper makes them.
RouterCall(caller, tokenIn, under, amount) ==
    [to |-> "router", amount |-> amount, path |-> << tokenIn, under >>, who |-> caller]
VaultCall(caller, total) ==
    [to |-> "vault", amount |-> total, path |-> << >>, who |-> caller]

\* deposit from the return of the swap on: the router answered `swap`, the
\* vault will answer vaultOk.
ZapDepositAfterSwap(none, v, caller, swap, vaultOk, swapCall) ==
    IF ~swap.ok THEN [none EXCEPT !.result = "SwapFailed", !.calls = << swapCall >>]
    ELSE IF swap.amounts = << >>
    THEN [none EXCEPT !.result = "Panicked", !.calls = << swapCall >>]
    ELSE \* (total is bound to the value read, so that it is evaluated once)
         CHOOSE out \in
             {IF ~vaultOk
              THEN [none EXCEPT !.result = "VaultFailed",
                                !.calls = << swapCall, VaultCall(caller, total) >>]
              ELSE [result |-> "Ok", ret |-> total,
                    calls |-> << swapCall, VaultCall(caller, total) >>,
                    vault |-> [v EXCEPT ![caller] = @ + total]]
                 : total \in {SwappedAmount(swap.amounts)}} : TRUE

\* deposit(caller, token_in, amount) of the zapper constructed for the
\* underlying asset `under`, run with the vault's record v.  calls lists
\* the calls made to other contracts, in order; result is the value
\* returned or the way the host failed the frame ("AuthFailed",
\* "SwapFailed", "Panicked", "VaultFailed").
ZapDeposit(v, under, auth, caller, tokenIn, amount, swap, vaultOk) ==
    LET none == [result |-> "AuthFailed", ret |-> 0, calls |-> << >>, vault |-> v]
    IN  IF ~Authorized(auth) THEN none
        ELSE IF ~NonNegative(amount) THEN [none EXCEPT !.result = "NegativeNotAllowed"]
        ELSE ZapDepositAfterSwap(none, v, caller, swap, vaultOk,
                                 RouterCall(caller, tokenIn, under, amount))

\* ------------------------------------------------------ transactions ----
\* Mutant: a failed transaction keeps its writes.
SettleKeepsWrites(result, pre, post) == post

\* What a transaction leaves on the ledger: the writes of its root frame
\* when the entry point returned Ok, nothing when it returned Err or failed.
Settle(result, pre, post) == IF result = "Ok" THEN post ELSE pre

\* No transaction has ended since the last EndTx.
Idle ==
    [op |-> "idle", auth |-> FALSE, caller |-> "", asset |-> "", amount |-> 0, len |-> 0,
     minp |-> 0, fee |-> 0, result |-> "none", ret |-> 0, put |-> EmptyStore, pool |-> FALSE,
     cb |-> NoCallback, initial |-> 0, final |-> 0, xfer |-> 0,
     pre |-> [store |-> EmptyStore, ttl |-> [k \in Keys |-> 0], bal |-> [a \in Assets |-> 0]],
     was |-> FALSE, items |-> << >>, results |-> << >>, ran |-> << >>, invs |-> << >>,
     swap |-> [ok |-> FALSE, amounts |-> << >>], calls |-> << >>,
     vaultPre |-> [u \in Users |-> 0]]

Init ==
    /\ store = EmptyStore
    /\ ttl = [k \in Keys |-> 0]
    /\ bal = [a \in Assets |-> 0]
    /\ consumed = FALSE
    /\ obs = Idle
    /\ underlying = ""
    /\ vault = [u \in Users |-> 0]
    /\ expired = EmptyStore

Commit(w) ==
    \E new \in {w} :
        /\ new.bal[TradedAsset] <= MaxBal
        /\ store' = new.store
        /\ ttl' = new.ttl
        /\ bal' = new.bal
        /\ UNCHANGED << underlying, vault >>

\* A transaction whose root invocation is pwnd_arb; the pool it names
\* charges `fee`.
TxPwndArb ==
    /\ obs.op = "idle"
    /\ \E auth \in BOOLEAN, caller \in Users, asset \in Assets, amount \in LoanAmounts,
          invs \in Batches, minp \in MinProfits, fee \in PoolFees, w \in {World} :
          \E o \in {PwndArb(w, auth, caller, asset, amount, invs, minp, fee)} :
              /\ Commit(Settle(o.result, w, o.world))
              /\ consumed' = IF o.result = "Ok" THEN o.cb.res = "Ok" ELSE consumed
              /\ expired' = IF o.result = "Ok" THEN EmptyStore ELSE expired
              /\ obs' = [op |-> "pwnd_arb", auth |-> auth, caller |-> caller, asset |-> asset,
                         amount |-> amount, len |-> Len(invs), minp |-> minp,
                         fee |-> IF o.pool THEN fee ELSE 0,
                         result |-> o.result, ret |-> o.ret,
                         put |-> IF o.wrote THEN o.world.store ELSE EmptyStore,
                         pool |-> o.pool, cb |-> o.cb, initial |-> o.initial,
                         final |-> o.final, xfer |-> o.xfer, pre |-> w, was |-> consumed,
                         items |-> << >>, results |-> << >>, ran |-> << >>, invs |-> invs,
                         swap |-> Idle.swap, calls |-> << >>, vaultPre |-> Idle.vaultPre]

\* A transaction whose root invocation is exec_op: the entry point is
\* public and asks for no authorization, so any account can submit it.
TxExecOp ==
    /\ obs.op = "idle"
    /\ \E caller \in Users, token \in Assets, amount \in ExecAmounts, fee \in ExecFees,
          w \in {World} :
          \E o \in {ExecOp(w, caller, token, amount, fee)} :
              /\ Commit(Settle(o.res, w, ExecOpLeaves(w, o)))
              /\ consumed' = IF o.res = "Ok" THEN TRUE ELSE consumed
              /\ expired' = expired
              /\ obs' = [Idle EXCEPT !.op = "exec_op", !.caller = caller, !.asset = token,
                                     !.amount = amount, !.fee = fee, !.result = o.res,
                                     !.cb = [res |-> o.res, at |-> o.at, log |-> o.log, seen |-> o.seen],
                                     !.pre = w, !.was = consumed]

\* A transaction whose root invocation is pwnd_exec.
TxPwndExec ==
    /\ obs.op = "idle"
    /\ \E auth \in BOOLEAN, caller \in Users, items \in ExecBatches, w \in {World} :
          \E o \in {PwndExec(w, auth, items)} :
              /\ Commit(Settle(o.result, w, [w EXCEPT !.bal = o.bal]))
              /\ UNCHANGED << consumed, expired >>
              /\ obs' = [Idle EXCEPT !.op = "pwnd_exec", !.auth = auth, !.caller = caller,
                                     !.result = o.result, !.items = items,
                                     !.results = o.results, !.ran = o.log,
                                     !.pre = w, !.was = consumed]

\* Somebody transfers 1 TradedAsset to the coordinator's address.
Donate ==
    /\ obs.op = "idle"
    /\ bal[TradedAsset] < MaxBal
    /\ bal' = [bal EXCEPT ![TradedAsset] = @ + 1]
    /\ UNCHANGED << store, ttl, consumed, obs, underlying, vault, expired >>

\* A ledger closes: every temporary entry is one ledger nearer its expiry,
\* and an entry whose TTL has run out is gone.
CloseLedger ==
    /\ obs.op = "idle"
    /\ \E k \in Keys : ttl[k] > 0
    /\ ttl' = [k \in Keys |-> IF ttl[k] > 0 THEN ttl[k] - 1 ELSE 0]
    /\ store' = [k \in Keys |-> IF ttl[k] > 1 THEN store[k] ELSE EmptyStore[k]]
    /\ consumed' = (consumed /\ \A k \in Keys : ttl[k] # 1)
    /\ expired' = IF \E k \in Keys : ttl[k] = 1 THEN store ELSE expired
    /\ UNCHANGED << bal, obs, underlying, vault >>

\* The transaction's outcome has been observed; the next one may be submitted.
EndTx ==
    /\ obs.op # "idle"
    /\ obs' = Idle
    /\ UNCHANGED << store, ttl, bal, consumed, underlying, vault, expired >>

Next == TxPwndArb \/ TxExecOp \/ TxPwndExec \/ Donate \/ CloseLedger \/ EndTx

Spec == Init /\ [][Next]_vars

\* ------------------------------------------- defindex-zap transactions --
\* __constructor(vault_address, router_address, underlying_asset): the
\* zapper is deployed for one underlying asset.
ZapConstructor ==
    /\ obs.op = "idle"
    /\ underlying = ""
    /\ \E a \in Assets : underlying' = a
    /\ UNCHANGED << store, ttl, bal, consumed, obs, vault, expired >>

\* A transaction whose root invocation is the zapper's deposit; the router
\* answers `swap` and the vault accepts the deposit or not.
TxZapDeposit ==
    /\ obs.op = "idle"
    /\ underlying # ""
    /\ \E auth \in BOOLEAN, caller \in Users, tokenIn \in Assets, amount \in ZapAmounts,
          vaultOk \in BOOLEAN, v \in {vault} :
          \E swap \in RouterAnswers(amount) :
              \E o \in {ZapDeposit(v, underlying, auth, caller, tokenIn, amount, swap, vaultOk)} :
                  \E new \in {Settle(o.result, v, o.vault)} :
                      /\ \A u \in Users : new[u] <= MaxDeposit
                      /\ vault' = new
                      /\ obs' = [Idle EXCEPT !.op = "deposit", !.auth = auth, !.caller = caller,
                                             !.asset = tokenIn, !.amount = amount,
                                             !.result = o.result, !.ret = o.ret,
                                             !.swap = IF o.calls = << >> THEN Idle.swap ELSE swap,
                                             !.calls = o.calls, !.vaultPre = v]
    /\ UNCHANGED << store, ttl, bal, consumed, underlying, expired >>

NextZap == ZapConstructor \/ TxZapDeposit \/ EndTx

SpecZap == Init /\ [][NextZap]_vars

\* ------------------------------------------------------------ claims ----
\* The transaction that has just ended was a call of pwnd_arb / a direct
\* call of exec_op.
IsArb == obs.op = "pwnd_arb"
IsExec == obs.op = "exec_op"
IsBatch == obs.op = "pwnd_exec"
IsZap == obs.op = "deposit"

\* The ledger is as it was before the transaction.
Unchanged == World = obs.pre

\* The request the direct exec_op call found differs from its arguments in
\* the named way.
SameAsset == obs.asset = obs.pre.store.LNASSET
SameAmount == obs.amount = obs.pre.store.LNAMT
SameCaller == obs.caller = obs.pre.store.CALLER

\* C1: non-replay.  Once a callback that returned Ok has consumed the stored
\* request, no later exec_op call invokes that request's invocations again:
\* it finds no request any more.
C1_NoReplay ==
    (IsExec /\ obs.was) => (obs.cb.log = << >> /\ obs.cb.at = "lookup")

\* C2: exec_op runs the stored batch only as the pool's callback inside
\* pwnd_arb; a transaction that calls exec_op directly never invokes a
\* sub-invocation.
C2_CallbackOnlyFromPool ==
    IsExec => obs.cb.log = << >>

\* C3: with a stored request present, a callback whose asset, amount or
\* caller differs from the stored one is rejected and invokes nothing; the
\* batch is started only when all three are equal.
C3_MismatchRejected ==
    /\ (IsExec /\ RequestPresent(obs.pre))
          => /\ ~(SameAsset /\ SameAmount /\ SameCaller)
                    => (obs.result # "Ok" /\ obs.cb.log = << >> /\ Unchanged)
             /\ obs.cb.log # << >> => (SameAsset /\ SameAmount /\ SameCaller)
    /\ (IsArb /\ obs.cb.log # << >>)
          => /\ obs.put.LNASSET = obs.asset
             /\ obs.put.LNAMT = obs.amount
             /\ obs.put.CALLER = obs.caller

\* A request is stored and the direct callback differs from it in the
\* amount alone.
C3_Witness ==
    /\ IsExec /\ RequestPresent(obs.pre)
    /\ SameAsset /\ SameCaller /\ ~SameAmount
    /\ obs.result = "InvalidParams" /\ obs.cb.at = "match"

\* C4: solvency.  exec_op returns Ok only if the coordinator's balance of
\* the loan asset after the whole batch is at least amount + fee; when the
\* batch has run and the balance is below amount + fee it returns
\* RepaymentFailed, whatever the sub-invocations did.
C4_Solvency ==
    /\ (IsExec /\ obs.result = "Ok") => bal[obs.asset] >= obs.amount + obs.fee
    /\ (IsArb \/ IsExec)
          => /\ obs.cb.res = "Ok" => obs.cb.seen >= obs.amount + obs.fee
             /\ (obs.cb.at \in {"repay", "done"} /\ obs.cb.seen < obs.amount + obs.fee)
                    => (obs.cb.res = "RepaymentFailed" /\ obs.result # "Ok")

\* The nested callback ran its whole batch and rejected for the balance.
C4_Witness ==
    /\ IsArb /\ obs.cb.res = "RepaymentFailed"
    /\ obs.cb.log # << >> /\ obs.cb.seen < obs.amount + obs.fee

\* C5: profit.  When the pool call has returned and final - initial is below
\* min_profit, pwnd_arb returns InsufficientProfit, transfers nothing and
\* leaves nothing; it returns Ok only with final - initial >= min_profit.
C5_Profit ==
    (IsArb /\ obs.cb.res = "Ok")
        => /\ obs.final - obs.initial < obs.minp
                  => (obs.result = "InsufficientProfit" /\ obs.xfer = 0 /\ Unchanged)
           /\ obs.result = "Ok" => obs.final - obs.initial >= obs.minp

\* The loan was repaid (the callback returned Ok, nothing was lost) and the
\* call was rejected for its profit.
C5_Witness ==
    /\ IsArb /\ obs.cb.res = "Ok" /\ obs.result = "InsufficientProfit"
    /\ obs.final >= obs.initial

\* C6: a pwnd_arb transaction that is rejected, in pwnd_arb or in the nested
\* exec_op, leaves the ledger as it was: no stored request of that call, no
\* effect of a sub-invocation, no transfer to the caller.
C6_Atomic ==
    (IsArb /\ (obs.result # "Ok" \/ obs.cb.res \notin {"none", "Ok"}))
        => (Unchanged /\ obs.xfer = 0 /\ obs.result # "Ok")

\* The nested callback rejected after the request had been written and
\* sub-invocations had changed the balances.
C6_Witness ==
    /\ IsArb /\ obs.result = "PoolFailed" /\ obs.cb.res = "RepaymentFailed"
    /\ obs.put # obs.pre.store /\ obs.cb.seen # obs.pre.bal[obs.asset] + obs.amount

\* C7: a pwnd_arb call with loan_amount < 0 or min_profit < 0 is rejected
\* with nothing written to the request store and no pool call.
C7_NegativeRejected ==
    (IsArb /\ (obs.amount < 0 \/ obs.minp < 0))
        => /\ obs.result \in {"AuthFailed", "InvalidInvocations", "InvalidParams"}
           /\ obs.put = EmptyStore /\ ~obs.pool /\ Unchanged

\* A negative min_profit, all else valid, rejected over a stored request.
C7_Witness ==
    /\ IsArb /\ obs.auth /\ obs.minp < 0 /\ obs.amount > 0 /\ obs.len = 1
    /\ obs.result = "InvalidParams" /\ RequestPresent(obs.pre)

\* C8: an authorized pwnd_arb call with an empty batch or one of more than
\* 10 invocations returns InvalidInvocations, whatever loan_amount and
\* min_profit are, with nothing stored and no pool call.
C8_BatchSize ==
    (IsArb /\ obs.auth /\ (obs.len = 0 \/ obs.len > 10))
        => /\ obs.result = "InvalidInvocations"
           /\ obs.put = EmptyStore /\ ~obs.pool /\ Unchanged

\* An oversized batch together with a negative loan_amount.
C8_Witness ==
    IsArb /\ obs.auth /\ obs.len = 11 /\ obs.amount < 0 /\ obs.result = "InvalidInvocations"

\* C9 as stated: an authorized call is rejected at validation exactly when
\* loan_amount < 0, min_profit < 0 or the batch length is outside 1..10.
C9_AsStated ==
    (IsArb /\ obs.auth)
        => (obs.result \in {"InvalidInvocations", "InvalidParams"}
               <=> (obs.amount < 0 \/ obs.minp < 0 \/ obs.len \notin 1..10))

\* C9 amended: an authorized call is rejected at validation exactly when
\* loan_amount <= 0, min_profit < 0 or the batch length is outside 1..10;
\* every other call writes its request and calls the pool.
C9_Validation ==
    (IsArb /\ obs.auth)
        => /\ obs.result \in {"InvalidInvocations", "InvalidParams"}
                  <=> (obs.amount <= 0 \/ obs.minp < 0 \/ obs.len \notin 1..10)
           /\ obs.result \notin {"InvalidInvocations", "InvalidParams"}
                  => /\ obs.pool
                     /\ obs.put.LNASSET = obs.asset /\ obs.put.LNAMT = obs.amount
                     /\ obs.put.MINPROF = obs.minp /\ obs.put.CALLER = obs.caller
                     /\ Len(obs.put.INVOCS) = obs.len

\* loan_amount = 0 with a valid batch and min_profit is rejected.
C9_Witness ==
    /\ IsArb /\ obs.auth /\ obs.amount = 0 /\ obs.minp >= 0 /\ obs.len \in 1..10
    /\ obs.result = "InvalidParams" /\ ~obs.pool

\* C10: a pwnd_arb call that returns Ok returns final - initial of the loan
\* asset and has transferred exactly that amount from the coordinator to the
\* caller when it is positive, nothing when it is 0.
C10_Disbursement ==
    (IsArb /\ obs.result = "Ok")
        => /\ obs.initial = obs.pre.bal[obs.asset]
           /\ obs.ret = obs.final - obs.initial
           /\ obs.xfer = (IF obs.ret > 0 THEN obs.ret ELSE 0)
           /\ bal[obs.asset] = obs.final - obs.xfer

\* A profit above min_profit, returned and transferred.
C10_Witness ==
    IsArb /\ obs.result = "Ok" /\ obs.ret > obs.minp /\ obs.xfer = obs.ret /\ obs.fee = 0


\* The batch the callback of the transaction just ended found in the store,
\* and the coordinator's balance of the traded asset when its loop began
\* (the pool has transferred the loan by then, when it is the pool calling).
CbBatch == IF IsArb THEN obs.put.INVOCS ELSE obs.pre.store.INVOCS
CbStart ==
    obs.pre.bal[TradedAsset] + (IF IsArb /\ obs.asset = TradedAsset THEN obs.amount ELSE 0)

\* Item j of the batch fails when the items before it have all succeeded:
\* it is a failing call, or it takes a token the coordinator does not have.
FailsAt(invs, start, j) ==
    \/ invs[j] = "fail"
    \/ /\ invs[j] = "lose"
       /\ start + Cardinality({k \in 1..(j - 1) : invs[k] = "gain"})
                - Cardinality({k \in 1..(j - 1) : invs[k] = "lose"}) < 1

\* The position of the first item that fails, 0 when none does.
FirstFailure(invs, start) ==
    IF \E j \in 1..Len(invs) : FailsAt(invs, start, j)
    THEN CHOOSE j \in 1..Len(invs) :
             FailsAt(invs, start, j) /\ \A k \in 1..(j - 1) : ~FailsAt(invs, start, k)
    ELSE 0

\* C11: fail-fast batch.  The callback invokes the stored invocations one
\* at a time in list order; an item is invoked only after all items before
\* it succeeded.  At the first item that fails no later item is invoked and
\* the callback returns SwapFailed, and the transaction leaves nothing.
C11_FailFast ==
    ((IsArb \/ IsExec) /\ obs.cb.at \in {"batch", "repay", "done"}) =>
        \E ff \in {FirstFailure(CbBatch, CbStart)} :
            /\ obs.cb.log = SubSeq(CbBatch, 1, IF ff = 0 THEN Len(CbBatch) ELSE ff)
            /\ (ff # 0) <=> (obs.cb.res = "SwapFailed")
            /\ (ff # 0) => (obs.result # "Ok" /\ Unchanged)

\* A callback inside pwnd_arb whose batch failed in the middle: some items
\* had succeeded, some were never invoked.
C11_Witness ==
    /\ IsArb
    /\ obs.cb.res = "SwapFailed"
    /\ 1 < Len(obs.cb.log)
    /\ Len(obs.cb.log) < Len(obs.put.INVOCS)

\* The coordinator's balance of the traded asset before item j of the
\* pwnd_exec batch of the transaction just ended, as the results pushed
\* tell it: each gain before j added one, each lose that returned a value
\* took one.
BalanceBefore(j) ==
    obs.pre.bal[TradedAsset]
        + Cardinality({k \in 1..(j - 1) : obs.items[k].kind = "gain"})
        - Cardinality({k \in 1..(j - 1) :
                          obs.items[k].kind = "lose" /\ obs.results[k].tag = "value"})

\* Item j of that batch, invoked, fails.
ItemFails(j) ==
    \/ obs.items[j].kind = "fail"
    \/ obs.items[j].kind = "lose" /\ BalanceBefore(j) < 1

\* C12: fail-soft batch.  An authorized pwnd_exec in which no item with
\* can_fail = false fails returns a list as long as its input: position i
\* holds item i's return value when the item succeeded and the captured
\* error value when it failed with can_fail = true; every item is invoked,
\* a tolerated failure stopping none, and the effects of the items that
\* succeeded are kept.
C12_FailSoft ==
    (IsBatch /\ obs.auth) =>
        /\ (\A j \in 1..Len(obs.ran) : ItemFails(j) => obs.items[j].canFail)
               <=> (obs.result = "Ok")
        /\ (obs.result = "Ok") =>
               /\ Len(obs.results) = Len(obs.items)
               /\ obs.ran = obs.items
               /\ \A i \in 1..Len(obs.items) :
                      obs.results[i] = IF ItemFails(i) THEN ErrorValue(obs.items[i].kind)
                                       ELSE Value(obs.items[i].kind)
               /\ \A i \in 1..Len(obs.items) : ItemFails(i) => obs.items[i].canFail
               /\ bal[TradedAsset] = BalanceBefore(Len(obs.items) + 1)

\* A batch of three whose second item failed with can_fail = true: three
\* results, the second the captured error, the third item invoked.
C12_Witness ==
    /\ IsBatch
    /\ obs.result = "Ok"
    /\ Len(obs.items) = 3
    /\ obs.results[2].tag = "error"
    /\ obs.results[3].tag = "value"

\* The items of the pwnd_exec batch just run that were invoked, were not
\* tolerated and failed.
StrictFailures == {j \in 1..Len(obs.ran) : ItemFails(j) /\ ~obs.items[j].canFail}

\* C13: in pwnd_exec, when an item with can_fail = false fails, no later
\* item is invoked, the call fails and returns no result list, and what the
\* earlier items did does not persist.
C13_StrictFailure ==
    (IsBatch /\ obs.auth) =>
        /\ \A j \in 1..Len(obs.items) :
               obs.items[j] = Strict("fail") => (Len(obs.ran) <= j /\ obs.result = "InvokeFailed")
        /\ \A j \in StrictFailures :
               /\ obs.ran = SubSeq(obs.items, 1, j)
               /\ obs.result = "InvokeFailed"
               /\ Len(obs.results) = j - 1
               /\ Unchanged

\* A batch of three whose first item paid the coordinator and whose second
\* item failed with can_fail = false.
C13_Witness ==
    /\ IsBatch
    /\ obs.result = "InvokeFailed"
    /\ Len(obs.items) = 3
    /\ Len(obs.ran) = 2
    /\ obs.results = << Value("gain") >>

\* C14: round trip through the store.  The pool's callback inside pwnd_arb,
\* called with the same (caller, asset, amount), finds the request that
\* call wrote - its invocation list, loan asset, loan amount and caller are
\* the call's arguments - and invokes exactly that list, in its order (up
\* to the first item that fails).
C14_RoundTrip ==
    (IsArb /\ obs.pool) =>
        /\ obs.put = [INVOCS |-> obs.invs, LNASSET |-> obs.asset, LNAMT |-> obs.amount,
                      MINPROF |-> obs.minp, CALLER |-> obs.caller]
        /\ obs.cb.at \in {"batch", "repay", "done"}
        /\ \E ff \in {FirstFailure(obs.invs, CbStart)} :
               obs.cb.log = SubSeq(obs.invs, 1, IF ff = 0 THEN Len(obs.invs) ELSE ff)

\* A pwnd_arb with ten invocations, made while another request was still
\* stored, whose callback ran all ten.
C14_Witness ==
    /\ IsArb
    /\ obs.cb.res = "Ok"
    /\ Len(obs.invs) = MaxInvocations
    /\ obs.cb.log = obs.invs
    /\ RequestPresent(obs.pre)
    /\ obs.pre.store.INVOCS # obs.invs

\* The direct exec_op call just ended found a request, and its arguments
\* differ from it.
Mismatched == RequestPresent(obs.pre) /\ ~(SameAsset /\ SameAmount /\ SameCaller)

\* C15 as stated: the callback reports the two lookup failures with
\* different typed errors, InvalidParams when no request is stored and an
\* error distinct from InvalidParams when the stored request does not match.
C15_AsStated ==
    IsExec =>
        /\ ~RequestPresent(obs.pre) => obs.cb.res = "InvalidParams"
        /\ Mismatched => (obs.cb.res # "Ok" /\ obs.cb.res # "InvalidParams")

\* C15: the callback reports both lookup failures with the same typed
\* error: InvalidParams when no request is stored, and InvalidParams again
\* when a request is stored and the supplied (caller, asset, amount) do not
\* match it.  In both cases no sub-invocation is invoked.
C15_LookupErrors ==
    IsExec =>
        /\ ~RequestPresent(obs.pre) =>
               (obs.cb.res = "InvalidParams" /\ obs.cb.at = "lookup" /\ obs.cb.log = << >>)
        /\ Mismatched =>
               (obs.cb.res = "InvalidParams" /\ obs.cb.at = "match" /\ obs.cb.log = << >>)

\* A direct call whose caller and asset are those of the stored request
\* and whose amount is not, rejected with InvalidParams.
C15_Witness ==
    /\ IsExec
    /\ RequestPresent(obs.pre)
    /\ SameAsset /\ SameCaller /\ ~SameAmount
    /\ obs.cb.res = "InvalidParams"

\* C16: pwnd_arb and pwnd_exec ask for the caller's authorization as their
\* first step.  Without it pwnd_arb writes no request and calls no pool,
\* and pwnd_exec invokes no item; the transaction fails and leaves nothing.
C16_AuthFirst ==
    /\ (IsArb /\ ~obs.auth) =>
           /\ obs.result = "AuthFailed"
           /\ obs.put = EmptyStore
           /\ ~obs.pool
           /\ obs.cb = NoCallback
           /\ Unchanged
    /\ (IsBatch /\ ~obs.auth) =>
           /\ obs.result = "AuthFailed"
           /\ obs.ran = << >>
           /\ obs.results = << >>
           /\ Unchanged

\* An unauthorized pwnd_arb whose arguments would pass validation, made
\* while the coordinator holds a token.
C16_Witness ==
    /\ IsArb
    /\ ~obs.auth
    /\ obs.amount > 0
    /\ obs.minp >= 0
    /\ Len(obs.invs) = 1
    /\ obs.pre.bal[TradedAsset] > 0

\* C17: the zapper's deposit(caller, tokenIn, amount) first calls the
\* router to swap tokenIn for the underlying asset, then makes exactly one
\* vault deposit, whose amount is the last element of the amounts the swap
\* returned and whose depositor is the caller, and returns that amount.  A
\* negative amount is rejected before the swap; when the swap fails no
\* vault deposit is made.
C17_ZapDeposit ==
    IsZap =>
        /\ (obs.auth /\ obs.amount < 0) =>
               (obs.result = "NegativeNotAllowed" /\ obs.calls = << >> /\ vault = obs.vaultPre)
        /\ (obs.auth /\ obs.amount >= 0) =>
               /\ Len(obs.calls) >= 1
               /\ obs.calls[1] = [to |-> "router", amount |-> obs.amount,
                                  path |-> << obs.asset, underlying >>, who |-> obs.caller]
        /\ (obs.calls # << >> /\ ~obs.swap.ok) =>
               (Len(obs.calls) = 1 /\ obs.result # "Ok" /\ vault = obs.vaultPre)
        /\ \A i \in 2..Len(obs.calls) :
               /\ i = 2
               /\ obs.calls[i] = [to |-> "vault", amount |-> obs.swap.amounts[Len(obs.swap.amounts)],
                                  path |-> << >>, who |-> obs.caller]
        /\ (obs.result = "Ok") =>
               /\ Len(obs.calls) = 2
               /\ obs.ret = obs.swap.amounts[Len(obs.swap.amounts)]
               /\ vault = [obs.vaultPre EXCEPT ![obs.caller] = @ + obs.ret]

\* A deposit that succeeded, the swap having paid out an amount other than
\* the one it took in.
C17_Witness ==
    /\ IsZap
    /\ obs.result = "Ok"
    /\ obs.swap.amounts[1] # obs.swap.amounts[2]
    /\ obs.ret > 0

\* The (caller, asset, amount) of a stored request.
Triple(st) == << st.CALLER, st.LNASSET, st.LNAMT >>

\* C18: the request store is a single slot that put overwrites.  After a
\* successful pwnd_arb made while the request of an earlier one was still
\* stored, the store holds the second call's request and nothing of the
\* first; an exec_op call carrying the first call's (caller, asset, amount),
\* where these differ from the second's, is rejected and invokes nothing.
C18_SingleSlot ==
    (IsArb /\ obs.result = "Ok") =>
        /\ store = [INVOCS |-> obs.invs, LNASSET |-> obs.asset, LNAMT |-> obs.amount,
                    MINPROF |-> obs.minp, CALLER |-> obs.caller]
        /\ (RequestPresent(obs.pre) /\ Triple(obs.pre.store) # Triple(store)) =>
               \A fee \in ExecFees :
                   \E o \in {ExecOp(World, obs.pre.store.CALLER, obs.pre.store.LNASSET,
                                     obs.pre.store.LNAMT, fee)} :
                       o.res = "InvalidParams" /\ o.at = "match" /\ o.log = << >>

\* Two successful pwnd_arb calls in a row, the second for another amount
\* and another batch than the first.
C18_Witness ==
    /\ IsArb
    /\ obs.result = "Ok"
    /\ RequestPresent(obs.pre)
    /\ obs.pre.store.LNAMT # obs.amount
    /\ obs.pre.store.INVOCS # obs.invs
    /\ store.LNAMT = obs.amount

\* A step that closes a ledger, as the temporary entries see it.
LedgerCloses == ttl' = [k \in Keys |-> IF ttl[k] > 0 THEN ttl[k] - 1 ELSE 0] /\ obs' = obs

\* A step in which a pwnd_arb that returned Ok has written its request.
RequestReplaced ==
    /\ obs'.op = "pwnd_arb"
    /\ obs'.result = "Ok"
    /\ store' = obs'.put

\* C19: reading does not delete.  A call of exec_op, successful or
\* rejected, direct or the pool's callback inside pwnd_arb, leaves the
\* fields of the stored request exactly as they were before it; a stored
\* request changes or goes only when a ledger close lets its TTL run out or
\* when a later pwnd_arb replaces it.
C19_ReadKeeps ==
    /\ [](IsExec => (store = obs.pre.store /\ ttl = obs.pre.ttl))
    /\ []((IsArb /\ obs.result = "Ok") => (store = obs.put /\ RequestPresent(World)))
    /\ [][(store' # store \/ ttl' # ttl) => (LedgerCloses \/ RequestReplaced)]_vars

\* A direct exec_op that ran the batch and returned Ok, the request still
\* stored after it.
C19_Witness ==
    /\ IsExec
    /\ obs.cb.res = "Ok"
    /\ obs.cb.log # << >>
    /\ RequestPresent(World)
    /\ store = obs.pre.store

\* The TTL window of a stored request has run out and no pwnd_arb has
\* stored a request since.
Elapsed == expired # EmptyStore

\* C20: TTL expiry.  A temporary entry lives at most TempTTL ledgers.  Once
\* the TTL window of a stored request has run out with no new pwnd_arb,
\* nothing of it is stored, and every exec_op call, one with the request's
\* own (caller, asset, amount) included, returns InvalidParams at the
\* lookup and invokes no sub-invocation.
C20_Expiry ==
    /\ \A k \in Keys : ttl[k] <= TempTTL
    /\ Elapsed => (store = EmptyStore /\ \A k \in Keys : ttl[k] = 0)
    /\ (IsExec /\ Elapsed) =>
           /\ obs.cb.res = "InvalidParams"
           /\ obs.cb.at = "lookup"
           /\ obs.cb.log = << >>
           /\ obs.result # "Ok"

\* After the expiry of a request, a direct exec_op with that request's
\* (caller, asset, amount), rejected with InvalidParams.
C20_Witness ==
    /\ IsExec
    /\ Elapsed
    /\ Triple(expired) = << obs.caller, obs.asset, obs.amount >>
    /\ obs.cb.res = "InvalidParams"

\* A request as pwnd_arb may store it.
WellFormed(st) ==
    /\ Len(st.INVOCS) >= 1
    /\ Len(st.INVOCS) <= MaxInvocations
    /\ st.LNAMT >= 0
    /\ st.MINPROF >= 0

\* C21: whenever a flash-loan request is stored - between transactions, or
\* written by the pwnd_arb that has just run, kept or not - it has between
\* 1 and 10 invocations, a loan amount >= 0 and a minimum profit >= 0.
C21_StoredRequest ==
    /\ (\E k \in Keys : ttl[k] > 0) => WellFormed(store)
    /\ (IsArb /\ obs.put # EmptyStore) => WellFormed(obs.put)

\* A stored request of ten invocations with a minimum profit of 0.
C21_Witness ==
    /\ RequestPresent(World)
    /\ Len(store.INVOCS) = MaxInvocations
    /\ store.MINPROF = 0

\* What the sub-invocations in log did, all having succeeded, to the
\* coordinator's balance of asset a.
BatchEffect(log, a) ==
    IF a = TradedAsset
    THEN Cardinality({k \in 1..Len(log) : log[k] = "gain"})
             - Cardinality({k \in 1..Len(log) : log[k] = "lose"})
    ELSE 0

C23_ProfitOut ==
    (IsArb /\ obs.result = "Ok") =>
        /\ obs.ret >= obs.minp
        /\ obs.minp >= 0
        /\ obs.ret = obs.final - obs.initial
        /\ obs.initial = obs.pre.bal[obs.asset]
        /\ bal[obs.asset] = obs.initial

\* A pwnd_arb that returned a profit of 1, made while the coordinator held
\* a token of the loan asset, which it still holds.
C23_Witness ==
    /\ IsArb
    /\ obs.result = "Ok"
    /\ obs.ret = 1
    /\ obs.initial = 1
    /\ bal[obs.asset] = 1

\* The five temporary entries are all absent, or all present with the same
\* number of ledgers to live.
AllOrNone ==
    \/ \A k \in Keys : ttl[k] = 0
    \/ \A k \in Keys : ttl[k] > 0 /\ ttl[k] = ttl["INVOCS"]

\* A step that writes all five entries from the arguments of one pwnd_arb.
WrittenByOneCall ==
    /\ obs'.op = "pwnd_arb"
    /\ obs'.result = "Ok"
    /\ store' = [INVOCS |-> obs'.invs, LNASSET |-> obs'.asset, LNAMT |-> obs'.amount,
                 MINPROF |-> obs'.minp, CALLER |-> obs'.caller]
    /\ \A k \in Keys : ttl'[k] > 0

\* A step in which all five entries go together.
AllExpire == store' = EmptyStore /\ \A k \in Keys : ttl'[k] = 0

\* C24: the stored request is five temporary entries, INVOCS, LNASSET,
\* LNAMT, MINPROF and CALLER.  In every state between transactions they are
\* all absent or all present, and their values change only all together:
\* one pwnd_arb call writes all five from its arguments, or all five expire.
\* So the entries present are always those of one pwnd_arb call, and the
\* request exec_op reads is never mixed from two.
C24_OneWriter ==
    /\ []AllOrNone
    /\ []((IsArb \/ IsExec) =>
             ((\A k \in Keys : obs.pre.ttl[k] = 0)
                  \/ (\A k \in Keys : obs.pre.ttl[k] = obs.pre.ttl["CALLER"])))
    /\ [][store' # store => (WrittenByOneCall \/ AllExpire)]_vars

\* A pwnd_arb of another caller has overwritten a request that had lived a
\* ledger: the five entries are the new call's, with the TTL of the old.
C24_Witness ==
    /\ IsArb
    /\ obs.result = "Ok"
    /\ RequestPresent(obs.pre)
    /\ obs.pre.store.CALLER # obs.caller
    /\ store.CALLER = obs.caller
    /\ \A k \in Keys : ttl[k] = obs.pre.ttl[k] /\ ttl[k] < TempTTL
====
